---- MODULE Spec2Model ----
(***************************************************************************)
(* A ball bouncing inside a tesseract (src/script.py).                     *)
(*                                                                         *)
(* The script works on floats; the model uses exact fixed-point integers:  *)
(*    positions, bounds, radius, eye distance : units of 0.0001            *)
(*    velocities                              : units of 0.01              *)
(*    dt                                      : units of 0.01              *)
(* so that ball_vel[i] * dt is a position, without rounding.  The result   *)
(* of a float division is an exact rational <<n, m>> in lowest terms with  *)
(* m > 0; a division by zero gives what numpy gives for float64 operands:  *)
(* <<1, 0>> is +inf, <<-1, 0>> is -inf and <<0, 0>> is nan.                *)
(***************************************************************************)
EXTENDS Integers, Sequences, FiniteSets, TLC

VARIABLES
    bounds,               \* script.py:10  (low, high) of every axis
    ball_radius,          \* script.py:13
    ball_pos,             \* script.py:14  4D position
    ball_vel,             \* script.py:16  4D velocity
    dt,                   \* script.py:19
    projection_distance,  \* script.py:23
    vertices_4d,          \* script.py:42
    edges,                \* script.py:45
    projected_edges,      \* script.py:54
    ball_proj,            \* script.py:98/109, the point handed to the scatter
    factor,               \* script.py:36, factor of the latest project_point call
    proj_args,            \* the points the latest step passed to project_point
    frame,                \* number of update(frame) calls made so far
    pc                    \* position in the script

vars == <<bounds, ball_radius, ball_pos, ball_vel, dt, projection_distance,
          vertices_4d, edges, projected_edges, ball_proj, factor, proj_args,
          frame, pc>>

config == <<bounds, ball_radius, dt, projection_distance>>

(***************************************************************************)
(* Program constants, in the units above.                                  *)
(***************************************************************************)
BoundsLow == -10000
BoundsHigh == 10000
BallRadius == 1000
VelRange == 50
Dt == 2
\* Mutant of line 23: an eye no farther than the ball can get.
ProjectionDistance_Near == BoundsHigh - BallRadius

ProjectionDistance == 30000
VertexCoord == 10000
EdgeGap == 20000
Frames == 500

(***************************************************************************)
(* Bounds of the model.                                                    *)
(***************************************************************************)
\* The initial velocity of each axis is drawn from a grid of 2*MaxVelSteps + 1
\* points inside [-0.5, 0.5).
MaxVelSteps == 1
\* Inputs of the project_point harness: coordinates and eye distances.
MaxCoord == 2
\* The animation repeats for ever; the model follows it for this many calls of
\* update beyond the first pass over the frames.
MaxRepeatFrames == 2

Axes == 1..4

Abs(n) == IF n < 0 THEN -n ELSE n

Sign(n) == IF n > 0 THEN 1 ELSE IF n < 0 THEN -1 ELSE 0

RECURSIVE GCD(_, _)
GCD(a, b) == IF b = 0 THEN a ELSE GCD(b, a % b)

\* The float quotient n / m as an exact rational (numpy semantics for m = 0).
Quot(n, m) ==
    IF m = 0 THEN <<Sign(n), 0>>
    ELSE LET g == GCD(Abs(n), Abs(m))
         IN  <<Sign(m) * (n \div g), Abs(m) \div g>>

\* The float product x * q of a number and a quotient.
Times(x, q) == Quot(x * q[1], q[2])

IsFinite(q) == q[2] # 0

IsPositive(q) == q[1] > 0

\* |q| as a rational.
Magnitude(q) == <<Abs(q[1]), q[2]>>

(***************************************************************************)
(* project_point, script.py:27-37                                          *)
(***************************************************************************)
\* Mutants of line 36: the denominator reversed, the numerator dropped, the
\* sign of w wrong.
project_factor_Reversed(point4d, d) == Quot(d, point4d[4] - d)

project_factor_NoD(point4d, d) == Quot(1, d - point4d[4])

project_factor_Plus(point4d, d) == Quot(d, d + point4d[4])

project_factor(point4d, d) == Quot(d, d - point4d[4])

project_point(point4d, d) ==
    LET f == project_factor(point4d, d)
    IN  <<Times(point4d[1], f), Times(point4d[2], f), Times(point4d[3], f)>>

(***************************************************************************)
(* Wireframe, script.py:41-58                                              *)
(***************************************************************************)
\* itertools.product([-1, 1], repeat=4): the last coordinate varies fastest.
Coord(bit) == IF bit = 0 THEN -VertexCoord ELSE VertexCoord

Product4 ==
    [k \in 1..16 |-> <<Coord(((k - 1) \div 8) % 2), Coord(((k - 1) \div 4) % 2),
                       Coord(((k - 1) \div 2) % 2), Coord((k - 1) % 2)>>]

\* np.sum(np.abs(u - v) == 2)
DiffCount(u, v) == Cardinality({a \in Axes : Abs(u[a] - v[a]) = EdgeGap})

\* Mutant of line 50: vertices that differ in at least one coordinate.
IsEdge_AtLeastOne(u, v) == DiffCount(u, v) >= 1

IsEdge(u, v) == DiffCount(u, v) = 1

\* The inner loop of lines 48-51 for one i, from j on: the edges it appends.
RECURSIVE InnerLoop(_, _, _)
InnerLoop(vs, i, j) ==
    IF j > Len(vs) THEN <<>>
    ELSE (IF IsEdge(vs[i], vs[j]) THEN <<(<<vs[i], vs[j]>>)>> ELSE <<>>)
             \o InnerLoop(vs, i, j + 1)

\* Mutant of line 48: j runs over every vertex, not only those after i.
RECURSIVE OuterLoop_AllJ(_, _)
OuterLoop_AllJ(vs, i) ==
    IF i > Len(vs) THEN <<>>
    ELSE InnerLoop(vs, i, 1) \o OuterLoop_AllJ(vs, i + 1)

\* The outer loop of lines 47-51 from i on.
RECURSIVE OuterLoop(_, _)
OuterLoop(vs, i) ==
    IF i > Len(vs) THEN <<>>
    ELSE InnerLoop(vs, i, i + 1) \o OuterLoop(vs, i + 1)

ComputeEdges(vs) == OuterLoop(vs, 1)

ProjectEdgeList(es, d) ==
    [k \in 1..Len(es) |-> <<project_point(es[k][1], d), project_point(es[k][2], d)>>]

(***************************************************************************)
(* update_ball, script.py:62-76                                            *)
(***************************************************************************)
\* Line 68, one axis.
Advance(p, v, step) == p + v * step

\* Mutant of line 73: the high wall repositions the ball and keeps its velocity.
Reflect_NoFlip(p, v, b, r) ==
    IF p + r > b[2] THEN <<b[2] - r, v>>
    ELSE IF p - r < b[1] THEN <<b[1] + r, -v>>
    ELSE <<p, v>>

\* Mutant of lines 72 and 75: the ball's centre is put on the wall.
Reflect_OnWall(p, v, b, r) ==
    IF p + r > b[2] THEN <<b[2], -v>>
    ELSE IF p - r < b[1] THEN <<b[1], -v>>
    ELSE <<p, v>>

\* Mutant of lines 73 and 76: the bounce loses half of the speed.
Reflect_Damped(p, v, b, r) ==
    IF p + r > b[2] THEN <<b[2] - r, -(v \div 2)>>
    ELSE IF p - r < b[1] THEN <<b[1] + r, -(v \div 2)>>
    ELSE <<p, v>>

\* Mutant of lines 72 and 75: the radius is applied with the wrong sign.
Reflect_SignSlip(p, v, b, r) ==
    IF p + r > b[2] THEN <<b[2] + r, -v>>
    ELSE IF p - r < b[1] THEN <<b[1] - r, -v>>
    ELSE <<p, v>>

\* Mutant of line 76: the low wall repositions the ball and keeps its velocity.
Reflect_NoLowFlip(p, v, b, r) ==
    IF p + r > b[2] THEN <<b[2] - r, -v>>
    ELSE IF p - r < b[1] THEN <<b[1] + r, v>>
    ELSE <<p, v>>

\* Lines 71-76, one axis: the new <<position, velocity>>.
Reflect(p, v, b, r) ==
    IF p + r > b[2] THEN <<b[2] - r, -v>>
    ELSE IF p - r < b[1] THEN <<b[1] + r, -v>>
    ELSE <<p, v>>

StepAxis(p, v, step, b, r) == Reflect(Advance(p, v, step), v, b, r)

update_ball ==
    /\ ball_pos' = [i \in Axes |->
                      StepAxis(ball_pos[i], ball_vel[i], dt, bounds, ball_radius)[1]]
    /\ ball_vel' = [i \in Axes |->
                      StepAxis(ball_pos[i], ball_vel[i], dt, bounds, ball_radius)[2]]

(***************************************************************************)
(* The script, top to bottom.                                              *)
(***************************************************************************)
\* np.random.uniform(-0.5, 0.5): a grid of the inside of [-0.5, 0.5).
VelChoices ==
    {(VelRange * k) \div (MaxVelSteps + 1) : k \in -MaxVelSteps..MaxVelSteps}

Zero4 == <<0, 0, 0, 0>>

\* What is common to every start: nothing computed or drawn yet.
Start ==
    /\ ball_pos = Zero4
    /\ vertices_4d = <<>>
    /\ edges = <<>>
    /\ projected_edges = <<>>
    /\ ball_proj = <<>>
    /\ factor = <<>>
    /\ proj_args = {}
    /\ frame = 0
    /\ pc = "wireframe"

DefaultConfig ==
    /\ bounds = <<BoundsLow, BoundsHigh>>
    /\ ball_radius = BallRadius
    /\ dt = Dt
    /\ projection_distance = ProjectionDistance

Init ==
    /\ DefaultConfig
    /\ ball_vel \in [Axes -> VelChoices]
    /\ Start

\* Lines 42-51.
BuildWireframe ==
    /\ pc = "wireframe"
    /\ vertices_4d' = Product4
    /\ edges' = ComputeEdges(Product4)
    /\ pc' = "project"
    /\ UNCHANGED <<config, ball_pos, ball_vel, projected_edges, ball_proj, factor,
                   proj_args, frame>>

\* Lines 54-58.
ProjectEdges ==
    /\ pc = "project"
    /\ projected_edges' = ProjectEdgeList(edges, projection_distance)
    /\ proj_args' = {edges[k][1] : k \in 1..Len(edges)}
                       \cup {edges[k][2] : k \in 1..Len(edges)}
    /\ factor' = IF edges = <<>> THEN factor
                 ELSE project_factor(edges[Len(edges)][2], projection_distance)
    /\ pc' = "draw"
    /\ UNCHANGED <<config, ball_pos, ball_vel, vertices_4d, edges, ball_proj, frame>>

\* Lines 98-99.
InitialDraw ==
    /\ pc = "draw"
    /\ ball_proj' = project_point(ball_pos, projection_distance)
    /\ factor' = project_factor(ball_pos, projection_distance)
    /\ proj_args' = {ball_pos}
    /\ pc' = "animate"
    /\ UNCHANGED <<config, ball_pos, ball_vel, vertices_4d, edges, projected_edges,
                   frame>>

\* Line 116: FuncAnimation(fig, update, frames=500, interval=20, blit=False).
\* No repeat argument is passed and FuncAnimation's repeat defaults to True:
\* "whether the animation repeats when the sequence of frames is completed".
\* So the timer calls update for frames 0..499 and then starts over, until the
\* window is closed.
TimerFires == frame < Frames + MaxRepeatFrames

\* Mutant of lines 108-112: the edge list is emptied on every frame.
update_ClearsEdges ==
    /\ pc = "animate"
    /\ TimerFires
    /\ update_ball
    /\ ball_proj' = project_point(ball_pos', projection_distance)
    /\ factor' = project_factor(ball_pos', projection_distance)
    /\ proj_args' = {ball_pos'}
    /\ frame' = frame + 1
    /\ projected_edges' = <<>>
    /\ UNCHANGED <<config, vertices_4d, edges, pc>>

\* Mutant of lines 108-109: the ball is projected before it is moved.
update_ProjectsFirst ==
    /\ pc = "animate"
    /\ TimerFires
    /\ update_ball
    /\ ball_proj' = project_point(ball_pos, projection_distance)
    /\ factor' = project_factor(ball_pos, projection_distance)
    /\ proj_args' = {ball_pos}
    /\ frame' = frame + 1
    /\ UNCHANGED <<config, vertices_4d, edges, projected_edges, pc>>

\* Lines 103-113, called by FuncAnimation once per frame (line 116).
update ==
    /\ pc = "animate"
    /\ TimerFires
    /\ update_ball
    /\ ball_proj' = project_point(ball_pos', projection_distance)
    /\ factor' = project_factor(ball_pos', projection_distance)
    /\ proj_args' = {ball_pos'}
    /\ frame' = frame + 1
    /\ UNCHANGED <<config, vertices_4d, edges, projected_edges, pc>>

Next ==
    \/ BuildWireframe
    \/ ProjectEdges
    \/ InitialDraw
    \/ update

Spec == Init /\ [][Next]_vars

(***************************************************************************)
(* The scenario of spec section 8: the default configuration, the ball at  *)
(* the origin with velocity (0, 0, 0, 5).  FuncAnimation's timer keeps     *)
(* calling update while frames remain, hence the weak fairness.            *)
(***************************************************************************)
ScenarioVel == <<0, 0, 0, 500>>

ScenarioInit ==
    /\ DefaultConfig
    /\ ball_vel = ScenarioVel
    /\ Start

ScenarioSpec == ScenarioInit /\ [][Next]_vars /\ WF_vars(Next)

(***************************************************************************)
(* The script with its parameters of lines 10-23 edited: every combination *)
(* of the values below, valid or not.  The script checks none of them.     *)
(***************************************************************************)
BoundsChoices == {<<BoundsLow, BoundsHigh>>, <<2 * BoundsLow, 2 * BoundsHigh>>}

RadiusChoices == {BallRadius, 0, 10 * BallRadius, 15 * BallRadius}

DtChoices == {Dt, 0, -Dt}

DistanceChoices == {ProjectionDistance, BoundsHigh + BallRadius, BoundsHigh}

CfgVelChoices == {-VelRange, VelRange \div 2}

CfgInit ==
    /\ bounds \in BoundsChoices
    /\ ball_radius \in RadiusChoices
    /\ dt \in DtChoices
    /\ projection_distance \in DistanceChoices
    /\ ball_vel \in [Axes -> CfgVelChoices]
    /\ Start

CfgSpec == CfgInit /\ [][Next]_vars

(***************************************************************************)
(* project_point on its own: one call with a point and an eye distance     *)
(* drawn from small ranges (the function is scale-free, so the inputs are  *)
(* plain integers).                                                        *)
(***************************************************************************)
Coords == -MaxCoord..MaxCoord

EyeDistances == -1..(MaxCoord + 1)

ProjInit ==
    /\ DefaultConfig!1
    /\ DefaultConfig!2
    /\ DefaultConfig!3
    /\ projection_distance \in EyeDistances
    /\ ball_pos \in Coords \X Coords \X Coords \X Coords
    /\ ball_vel = Zero4
    /\ vertices_4d = <<>>
    /\ edges = <<>>
    /\ projected_edges = <<>>
    /\ ball_proj = <<>>
    /\ factor = <<>>
    /\ proj_args = {}
    /\ frame = 0
    /\ pc = "call"

\* project_point(ball_pos, projection_distance), lines 27-37.
ProjectCall ==
    /\ pc = "call"
    /\ ball_proj' = project_point(ball_pos, projection_distance)
    /\ factor' = project_factor(ball_pos, projection_distance)
    /\ proj_args' = {ball_pos}
    /\ pc' = "returned"
    /\ UNCHANGED <<config, ball_pos, ball_vel, vertices_4d, edges, projected_edges,
                   frame>>

ProjSpec == ProjInit /\ [][ProjectCall]_vars

(***************************************************************************)
(* Properties.                                                             *)
(***************************************************************************)
Ticked == pc = "animate" /\ frame > 0

Contained(i) ==
    /\ bounds[1] + ball_radius <= ball_pos[i]
    /\ ball_pos[i] <= bounds[2] - ball_radius

\* C1: for all configurations and all tick counts, after every update_ball
\* step every axis i has bounds.low + radius <= ball_pos[i] <= bounds.high - radius.
BoundaryContainment == Ticked => \A i \in Axes : Contained(i)

\* C2: if before a step ball_pos[i] + ball_vel[i]*dt + ball_radius > bounds.high,
\* then after the step ball_vel[i] has the opposite sign and the same magnitude,
\* and ball_pos[i] = bounds.high - ball_radius.
ReflectionAtHighWall ==
    [][frame' = frame + 1 =>
         \A i \in Axes :
            ball_pos[i] + ball_vel[i] * dt + ball_radius > bounds[2] =>
               /\ Sign(ball_vel[i]) # 0
               /\ Sign(ball_vel'[i]) = -Sign(ball_vel[i])
               /\ Abs(ball_vel'[i]) = Abs(ball_vel[i])
               /\ ball_pos'[i] = bounds[2] - ball_radius]_vars

\* A tick has just reflected some axis at the high wall.
ReflectedAtHighWall ==
    /\ Ticked
    /\ \E i \in Axes : ball_pos[i] = bounds[2] - ball_radius /\ ball_vel[i] < 0

\* C3: in the scenario, the steps eventually reach ball_pos[3] = 0.9 with
\* ball_vel[3] = -5, and ball_pos[3] never exceeds 0.9 (axis 3 of the script is
\* index 4 here).
ScenarioReachesWall ==
    /\ <>(ball_pos[4] = BoundsHigh - BallRadius /\ ball_vel[4] = -ScenarioVel[4])
    /\ [](ball_pos[4] <= BoundsHigh - BallRadius)

\* The tick of the scenario that reflects the w axis.
ScenarioReflected ==
    /\ Ticked
    /\ ball_vel = <<0, 0, 0, -ScenarioVel[4]>>
    /\ ball_pos = <<0, 0, 0, BoundsHigh - BallRadius>>

InvalidConfig ==
    \/ dt <= 0
    \/ ball_radius <= 0
    \/ 2 * ball_radius >= bounds[2] - bounds[1]
    \/ projection_distance <= bounds[2] + ball_radius

\* C4: with dt <= 0, radius <= 0, radius >= (high - low)/2 or
\* projectionDistance <= high + radius, startup fails and no tick is performed.
ConfigurationValidated == InvalidConfig => frame = 0

\* C5: every point passed to project_point (the wireframe vertices, the ball at
\* the initial draw and after every tick) has w < projection_distance.
NonDegenerateProjection == \A p \in proj_args : p[4] < projection_distance

\* A tick has projected the ball at its largest w.
ProjectedAtHighWall ==
    /\ Ticked
    /\ proj_args = {ball_pos}
    /\ ball_pos[4] = bounds[2] - ball_radius

\* C6: project_point called with w >= d does not return a point scaled by a
\* non-positive or undefined factor.
DefensiveGuard ==
    (pc = "returned" /\ ball_pos[4] >= projection_distance) =>
        IsFinite(factor) /\ IsPositive(factor)

Degree(v) == Cardinality({k \in 1..Len(edges) : edges[k][1] = v \/ edges[k][2] = v})

\* C7: the geometry has exactly 16 distinct vertices and exactly 32 edges, and
\* every vertex is an endpoint of exactly 4 edges.
TesseractCounts ==
    pc # "wireframe" =>
        /\ Len(vertices_4d) = 16
        /\ Cardinality({vertices_4d[k] : k \in 1..Len(vertices_4d)}) = 16
        /\ Len(edges) = 32
        /\ \A k \in 1..Len(vertices_4d) : Degree(vertices_4d[k]) = 4

\* The wireframe has just been built.
WireframeBuilt == pc = "project" /\ edges # <<>> /\ vertices_4d # <<>>

\* C8 as stated: for every point and every eye distance d with w < d, the
\* factor is finite and positive.
FactorPositiveAnyDistance ==
    (pc = "returned" /\ ball_pos[4] < projection_distance) =>
        IsFinite(factor) /\ IsPositive(factor)

\* C8, amended: for every point and every eye distance d > 0 with w < d, the
\* factor d/(d - w) is finite and positive.
FactorPositive ==
    (pc = "returned" /\ projection_distance > 0 /\ ball_pos[4] < projection_distance) =>
        IsFinite(factor) /\ IsPositive(factor)

\* A call with 0 < d, w < d and w # 0 has returned.
FactorComputed ==
    /\ pc = "returned"
    /\ projection_distance > 0
    /\ ball_pos[4] < projection_distance
    /\ ball_pos[4] # 0
    /\ factor # <<1, 1>>

\* C9: for every x, y, z and every d > 0, project_point((x, y, z, 0), d)
\* is exactly (x, y, z).
ProjectionIdentity ==
    (pc = "returned" /\ projection_distance > 0 /\ ball_pos[4] = 0) =>
        ball_proj = <<(<<ball_pos[1], 1>>), (<<ball_pos[2], 1>>), (<<ball_pos[3], 1>>)>>

\* A call on a point off the origin with w = 0 and d > 1 has returned.
IdentityProjected ==
    /\ pc = "returned"
    /\ projection_distance > 1
    /\ ball_pos[4] = 0
    /\ ball_pos[1] # 0 /\ ball_pos[2] # 0 /\ ball_pos[3] # 0

\* a <= b for finite rationals.
Leq(a, b) == a[1] * b[2] <= b[1] * a[2]

\* The projection of the point of the call with w replaced by w1.
ProjectedWith(w1) ==
    project_point(<<ball_pos[1], ball_pos[2], ball_pos[3], w1>>, projection_distance)

\* C10: for fixed x, y, z, d and w1 < w2 < d, each projected coordinate of
\* (x, y, z, w2) is at least as large in magnitude as that of (x, y, z, w1),
\* in the ratio (d - w1)/(d - w2).
ProjectionMonotone ==
    pc = "returned" =>
        \A w1 \in Coords :
            (w1 < ball_pos[4] /\ ball_pos[4] < projection_distance) =>
                \A c \in 1..3 :
                    /\ Leq(Magnitude(ProjectedWith(w1)[c]), Magnitude(ball_proj[c]))
                    /\ Times(projection_distance - ball_pos[4], Magnitude(ball_proj[c]))
                         = Times(projection_distance - w1, Magnitude(ProjectedWith(w1)[c]))

\* A call whose projection is strictly larger than that of a smaller w.
MagnifiedProjection ==
    /\ pc = "returned"
    /\ \E w1 \in Coords :
          /\ w1 < ball_pos[4] /\ ball_pos[4] < projection_distance
          /\ ~Leq(Magnitude(ball_proj[1]), Magnitude(ProjectedWith(w1)[1]))

\* C11 is a statement about two runs; see RESULTS.json.

\* C12: a tick changes only the ball's position and velocity (and the displayed
\* ball point): the vertices, the edges, the projected edges, bounds, radius,
\* dt and the projection distance are the same after it as before.
TickFrame ==
    [][frame' = frame + 1 =>
         UNCHANGED <<vertices_4d, edges, projected_edges, bounds, ball_radius, dt,
                     projection_distance>>]_vars

\* A tick has moved the ball while the wireframe is on display.
TickedWithWireframe ==
    /\ Ticked
    /\ ball_pos # Zero4
    /\ Len(projected_edges) = Len(edges)
    /\ edges # <<>>

\* C13: with frames = 500 the loop makes 500 frames, one update_ball step each,
\* and no further physics step once the frame budget is exhausted.
FrameBudget == frame <= Frames

\* The position of axis i after line 68 of the coming step.
Advanced(i) == ball_pos[i] + ball_vel[i] * dt

\* C14: for every axis i, with p = ball_pos[i] + ball_vel[i]*dt, a step yields
\* (high - radius, -vel[i]) if p + radius > high, otherwise (low + radius,
\* -vel[i]) if p - radius < low, otherwise (p, vel[i]).
PerAxisStep ==
    [][frame' = frame + 1 =>
         \A i \in Axes :
            IF Advanced(i) + ball_radius > bounds[2]
            THEN ball_pos'[i] = bounds[2] - ball_radius /\ ball_vel'[i] = -ball_vel[i]
            ELSE IF Advanced(i) - ball_radius < bounds[1]
            THEN ball_pos'[i] = bounds[1] + ball_radius /\ ball_vel'[i] = -ball_vel[i]
            ELSE ball_pos'[i] = Advanced(i) /\ ball_vel'[i] = ball_vel[i]]_vars

\* A tick has just reflected some axis at the low wall.
ReflectedAtLowWall ==
    /\ Ticked
    /\ \E i \in Axes : ball_pos[i] = bounds[1] + ball_radius /\ ball_vel[i] > 0

\* C15: in every tick the physics step happens once and before the projection:
\* the ball point on display is project_point of the position after the step.
TickOrdering ==
    [][frame' = frame + 1 =>
         /\ ball_proj' = project_point(ball_pos', projection_distance)
         /\ \A i \in Axes :
               ball_pos'[i] = StepAxis(ball_pos[i], ball_vel[i], dt, bounds,
                                       ball_radius)[1]]_vars

\* A tick has displayed a ball that is off the w = 0 hyperplane and off the
\* origin of the display.
DisplayedMovedBall ==
    /\ Ticked
    /\ ball_pos[4] # 0
    /\ ball_pos[1] # 0
    /\ ball_proj = project_point(ball_pos, projection_distance)
    /\ ball_proj[1] # <<ball_pos[1], 1>>

\* The vertices u and v differ in exactly one of the 4 coordinates.
DifferInOne(u, v) == Cardinality({a \in Axes : u[a] # v[a]}) = 1

\* How often the unordered pair {u, v} is in the edge list.
Occurrences(u, v) ==
    Cardinality({k \in 1..Len(edges) : edges[k] = <<u, v>> \/ edges[k] = <<v, u>>})

\* C16: the computed edge list holds the unordered pair {u, v} iff u and v are
\* distinct vertices that differ in exactly one coordinate; each such pair is
\* there exactly once, and no pair of a vertex with itself.  (Stated of the list
\* as the loop leaves it; C12 is that no tick changes it.)
EdgeCharacterization ==
    pc = "project" =>
        /\ \A k \in 1..Len(edges) :
              /\ edges[k][1] # edges[k][2]
              /\ \E a, b \in 1..Len(vertices_4d) :
                    edges[k] = <<vertices_4d[a], vertices_4d[b]>>
        /\ \A a, b \in 1..Len(vertices_4d) :
              a <= b =>
                 Occurrences(vertices_4d[a], vertices_4d[b])
                    = IF DifferInOne(vertices_4d[a], vertices_4d[b]) THEN 1 ELSE 0

\* The edge loop has run and found the edges of vertex (-1, -1, -1, -1).
EdgesComputed ==
    /\ pc = "project"
    /\ Len(vertices_4d) = 16
    /\ Occurrences(vertices_4d[1], vertices_4d[2]) = 1
    /\ Occurrences(vertices_4d[1], vertices_4d[4]) = 0

\* C17: the absolute value of every ball_vel[i] is the same at every tick as at
\* startup: no step changes more than the sign of a velocity component.
SpeedPreserved ==
    [][\A i \in Axes :
          /\ Abs(ball_vel'[i]) = Abs(ball_vel[i])
          /\ ball_vel'[i] \in {ball_vel[i], -ball_vel[i]}]_vars

\* A tick has reflected one axis at the high wall and another at the low wall.
ReflectedAtBothWalls ==
    /\ Ticked
    /\ \E i, j \in Axes :
          /\ ball_pos[i] = bounds[2] - ball_radius /\ ball_vel[i] < 0
          /\ ball_pos[j] = bounds[1] + ball_radius /\ ball_vel[j] > 0

\* C18: from the origin with the default bounds, radius and dt, whenever a step
\* reflects axis i at the high wall the resulting ball_vel[i] is negative, and
\* whenever it reflects at the low wall the resulting ball_vel[i] is positive.
InwardReflection ==
    [][frame' = frame + 1 =>
         \A i \in Axes :
            /\ Advanced(i) + ball_radius > bounds[2] => ball_vel'[i] < 0
            /\ (Advanced(i) + ball_radius <= bounds[2]
                  /\ Advanced(i) - ball_radius < bounds[1]) => ball_vel'[i] > 0]_vars

\* The ball is one step inside the high wall, moving away from it.
MovingInwardFromHighWall ==
    /\ Ticked
    /\ \E i \in Axes :
          /\ ball_vel[i] < 0
          /\ ball_pos[i] = bounds[2] - ball_radius + ball_vel[i] * dt

====
